---- MODULE Spec2Model ----
(***************************************************************************)
(* A model of the bitcask-engine-rs storage engine: the record codec       *)
(* (log_entry.rs), one log file (log_file.rs), the file set                *)
(* (disk_logs.rs), the memory index (memory_index.rs), the storage engine  *)
(* and the compactor (storage.rs) and the lock discipline of the facade    *)
(* (bitcask.rs).                                                           *)
(*                                                                         *)
(* Files are byte sequences.  A directory is a function from file ids to   *)
(* byte sequences (NoFile where no file of that id exists).  Keys and      *)
(* values are byte sequences.  TLC integers are 32 bits wide, so the u32    *)
(* checksum is kept as its four big-endian bytes and a u64 size as its     *)
(* eight big-endian bytes, exactly as they lie on disk.                    *)
(***************************************************************************)
EXTENDS Integers, Sequences, FiniteSets, TLC

(***************************************************************************)
(* Bounds of the model.                                                    *)
(***************************************************************************)
MaxWrites == 3          \* records appended by put/delete in one behaviour
MaxFileId == 3          \* greatest log file id that may be created
MaxDirs == 3            \* directories (the first one plus compaction targets)

\* DiskLogFile::MAX_FILE_SIZE is 1 GiB in the source; the model scales the
\* rollover threshold down so that rollovers happen within the bounds.
MAX_FILE_SIZE == 22

KEYS == {<<1>>, <<2>>}
VALUES == {<<>>, <<5>>, <<6, 7>>}

Dirs == 1..MaxDirs
FileIds == 0..MaxFileId

NoFile == <<256>>       \* no file of this id in the directory
None == <<"None">>
Some(v) == <<"Some", v>>
Panic == <<"Panic">>    \* the calling thread panicked (unwrap on None)

(***************************************************************************)
(* log_entry.rs: the record codec.                                         *)
(***************************************************************************)
RECURSIVE XorN(_, _, _)
XorN(a, b, n) ==
    IF n = 0 THEN 0
    ELSE (((a % 2) + (b % 2)) % 2) + 2 * XorN(a \div 2, b \div 2, n - 1)

Xor4(c, d) == [i \in 1..4 |-> XorN(c[i], d[i], 8)]

Shl1(c) == << ((c[1] * 2) % 256) + (c[2] \div 128),
              ((c[2] * 2) % 256) + (c[3] \div 128),
              ((c[3] * 2) % 256) + (c[4] \div 128),
              (c[4] * 2) % 256 >>

\* CRC_32_CKSUM: poly 0x04c11db7, init 0, no reflection, xorout 0xffffffff
POLY == <<4, 193, 29, 183>>

RECURSIVE CrcShift(_, _)
CrcShift(c, n) ==
    IF n = 0 THEN c
    ELSE CrcShift(IF c[1] >= 128 THEN Xor4(Shl1(c), POLY) ELSE Shl1(c), n - 1)

RECURSIVE CrcUpdate(_, _, _)
CrcUpdate(c, bytes, i) ==
    IF i > Len(bytes) THEN c
    ELSE CrcUpdate(CrcShift(<<XorN(c[1], bytes[i], 8), c[2], c[3], c[4]>>, 8),
                   bytes, i + 1)

Crc32(bytes) ==
    LET c == CrcUpdate(<<0, 0, 0, 0>>, bytes, 1) IN [i \in 1..4 |-> 255 - c[i]]

CrcTable == [v \in VALUES |-> Crc32(v)]

checksum(bytes) == IF bytes \in VALUES THEN CrcTable[bytes] ELSE Crc32(bytes)

check_sum_byte_size == 4
size_byte_len == 8

\* a u64 at least this large exceeds every file length of the model
HUGE == 16777216

\* write calls failing in the append path in one behaviour
MaxFailedWrites == 1

\* the bit patterns a damaged byte differs by from the byte written
FlipMasks == {1, 128, 255}

\* u64::to_be_bytes, for n < 2^16
to_be_bytes(n) == <<0, 0, 0, 0, 0, 0, n \div 256, n % 256>>

\* u64::from_be_bytes, saturated at HUGE
from_be_bytes(b) ==
    IF \E i \in 1..5 : b[i] # 0 THEN HUGE
    ELSE b[6] * 65536 + b[7] * 256 + b[8]

new_entry(key, value) ==
    [check_sum |-> checksum(value), key |-> key, value |-> Some(value)]

new_tombstone(key) ==
    [check_sum |-> <<0, 0, 0, 0>>, key |-> key, value |-> None]

entry_is_tombstone(entry) == entry.value = None

\* is_valid accepting every record: the detection of a damaged value on
\* open (C14) tells the two apart
is_valid_unchecked(entry) == TRUE

is_valid(entry) ==
    IF entry.value # None THEN entry.check_sum = checksum(entry.value[2])
    ELSE TRUE

key_byte_size(entry) == Len(entry.key)

value_byte_size(entry) == IF entry.value # None THEN Len(entry.value[2]) ELSE 0

value_byte_offset(entry) ==
    check_sum_byte_size + size_byte_len * 2 + key_byte_size(entry)

total_byte_size(entry) ==
    check_sum_byte_size + size_byte_len * 2 + key_byte_size(entry)
        + value_byte_size(entry)

serialize(entry) ==
    entry.check_sum \o to_be_bytes(key_byte_size(entry))
        \o to_be_bytes(value_byte_size(entry)) \o entry.key
        \o (IF entry.value # None THEN entry.value[2] ELSE <<>>)

\* read_exact of n bytes at position pos of a reader over bytes
CanRead(bytes, pos, n) == pos + n <= Len(bytes)
ReadAt(bytes, pos, n) == SubSeq(bytes, pos + 1, pos + n)

\* DiskLogEntry::deserialize from a reader positioned at pos.
\* Result: <<"Ok", entry>>, <<"IoError">> (read_exact hit end of file) or
\* <<"CorruptedData">> (checksum mismatch).
deserialize(bytes, pos) ==
    IF ~CanRead(bytes, pos, 4) THEN <<"IoError">>
    ELSE IF ~CanRead(bytes, pos + 4, 8) THEN <<"IoError">>
    ELSE IF ~CanRead(bytes, pos + 12, 8) THEN <<"IoError">>
    ELSE
      LET check_sum == ReadAt(bytes, pos, 4)
          key_size == from_be_bytes(ReadAt(bytes, pos + 4, 8))
          value_size == from_be_bytes(ReadAt(bytes, pos + 12, 8))
      IN IF ~CanRead(bytes, pos + 20, key_size) THEN <<"IoError">>
         ELSE IF value_size > 0 /\ ~CanRead(bytes, pos + 20 + key_size, value_size)
              THEN <<"IoError">>
         ELSE
           LET entry == [check_sum |-> check_sum,
                         key |-> ReadAt(bytes, pos + 20, key_size),
                         value |-> IF value_size > 0
                                   THEN Some(ReadAt(bytes, pos + 20 + key_size,
                                                    value_size))
                                   ELSE None]
           IN IF is_valid(entry) THEN <<"Ok", entry>> ELSE <<"CorruptedData">>

(***************************************************************************)
(* memory_index.rs: the index, a map from keys to entries.                 *)
(***************************************************************************)
EmptyIndex == [k \in {} |-> 0]

\* the order of Vec<u8>: bytewise lexicographic
RECURSIVE key_less(_, _)
key_less(a, b) ==
    IF a = <<>> THEN b # <<>>
    ELSE IF b = <<>> THEN FALSE
    ELSE IF a[1] # b[1] THEN a[1] < b[1]
    ELSE key_less(Tail(a), Tail(b))

\* the keys of the map in descending order: the layout of the compacted
\* file (C30) tells the two apart
RECURSIVE KeysDescending(_)
KeysDescending(S) ==
    IF S = {} THEN <<>>
    ELSE LET x == CHOOSE x \in S : \A y \in S : x = y \/ key_less(y, x)
         IN <<x>> \o KeysDescending(S \ {x})

\* the keys of a BTreeMap in iteration order
RECURSIVE SortedKeys(_)
SortedKeys(S) ==
    IF S = {} THEN <<>>
    ELSE LET x == CHOOSE x \in S : \A y \in S : x = y \/ key_less(x, y)
         IN <<x>> \o SortedKeys(S \ {x})

MemIndexEntry(file_id, value_offset, value_size) ==
    [file_id |-> file_id, value_offset |-> value_offset, value_size |-> value_size]

is_tombstone(e) == e.value_size = 0

index_put(m, key, e) ==
    [k \in (DOMAIN m) \cup {key} |-> IF k = key THEN e ELSE m[k]]

index_delete(m, key) == [k \in (DOMAIN m) \ {key} |-> m[k]]

index_size(m) == Cardinality(DOMAIN m)

(***************************************************************************)
(* log_file.rs: one log file.                                              *)
(***************************************************************************)
\* append_new_entry returning the offset of the record where the value
\* offset belongs: last-write-wins (C1) tells the two apart
append_new_entry_record_offset(bytes, entry) ==
    [bytes |-> bytes \o serialize(entry), value_offset |-> Len(bytes)]

\* append_new_entry writing from the start of the file instead of its end:
\* the bytes written before (C22) tell the two apart
append_new_entry_rewrite(bytes, entry) ==
    [bytes |-> serialize(entry), value_offset |-> value_byte_offset(entry)]

\* DiskLogFile::append_new_entry: the new bytes of the file and the value offset
append_new_entry(bytes, entry) ==
    [bytes |-> bytes \o serialize(entry),
     value_offset |-> Len(bytes) + value_byte_offset(entry)]

\* the body of the scan loop of populate_mem_index for one record read at
\* cursor: a tombstone removes the key, a value record inserts its location
scan_entry(m, file_id, cursor, entry) ==
    IF entry_is_tombstone(entry) THEN index_delete(m, entry.key)
    ELSE index_put(m, entry.key,
                   MemIndexEntry(file_id, cursor + value_byte_offset(entry),
                                 value_byte_size(entry)))

\* DiskLogFile::populate_mem_index: the scan loop from cursor on.
\* Result: <<"Ok", index>> or the error of deserialize.
RECURSIVE populate_mem_index(_, _, _, _)
RECURSIVE scan_next(_, _, _, _, _)

\* scan_next taking a record it cannot read for the end of the log and
\* returning an empty index: the values an open may serve after a torn write
\* (C15) tell the two apart
scan_next_forgetful(bytes, file_id, cursor, m, r) ==
    IF r[1] # "Ok" THEN <<"Ok", EmptyIndex>>
    ELSE populate_mem_index(bytes, file_id, cursor + total_byte_size(r[2]),
                            scan_entry(m, file_id, cursor, r[2]))

populate_mem_index(bytes, file_id, cursor, m) ==
    IF cursor >= Len(bytes) THEN <<"Ok", m>>
    ELSE scan_next(bytes, file_id, cursor, m, deserialize(bytes, cursor))

\* the rest of one turn of the loop, r being what deserialize returned
scan_next(bytes, file_id, cursor, m, r) ==
    IF r[1] # "Ok" THEN r
    ELSE populate_mem_index(bytes, file_id, cursor + total_byte_size(r[2]),
                            scan_entry(m, file_id, cursor, r[2]))

(***************************************************************************)
(* disk_logs.rs: the file set.  files is the sequence of the file ids of   *)
(* the DiskLogFile objects of the vector, all of them in directory dir.    *)
(***************************************************************************)
\* current_file: the last file of the vector
current_file(flist) == flist[Len(flist)]

\* get_file: the file at POSITION file_id of the vector; Panic when the
\* vector has no such position (Vec::get(..).unwrap())
get_file(flist, file_id) ==
    IF file_id + 1 <= Len(flist) THEN <<"Ok", flist[file_id + 1]>> ELSE Panic

\* the positioned read of DiskLogFileStorage::get on the file f that
\* get_file returned
read_value(dsk, dir, f, e) ==
    IF f = Panic THEN Panic
    ELSE IF CanRead(dsk[dir][f[2]], e.value_offset, e.value_size)
    THEN <<"Ok", ReadAt(dsk[dir][f[2]], e.value_offset, e.value_size)>>
    ELSE <<"IoError">>

\* DiskLogFileStorage::get: <<"Ok", value>>, <<"IoError">> or Panic
disk_log_get(dsk, dir, flist, e) ==
    read_value(dsk, dir, get_file(flist, e.file_id), e)

\* create_new_file opening the file of the last id once more where the id
\* last + 1 belongs: the ids of the file set (C13) tell the two apart
create_new_file_same_id(dsk, dir, flist) ==
    [disk |-> dsk, files |-> Append(flist, current_file(flist))]

\* create_new_file: push the file of id last + 1 (created if missing, kept
\* as it is if it exists: OpenOptions create + append).  current_file_size
\* is not touched.
create_new_file(dsk, dir, flist) ==
    [disk |-> IF dsk[dir][current_file(flist) + 1] = NoFile
              THEN [dsk EXCEPT ![dir][current_file(flist) + 1] = <<>>] ELSE dsk,
     files |-> Append(flist, current_file(flist) + 1)]

\* check_file_size rolling over at the threshold already: a file of exactly
\* MAX_FILE_SIZE bytes (C21) tells the two apart
check_file_size_at_threshold(dsk, dir, flist) ==
    IF Len(dsk[dir][current_file(flist)]) >= MAX_FILE_SIZE
    THEN create_new_file(dsk, dir, flist)
    ELSE [disk |-> dsk, files |-> flist]

\* check_file_size: roll over when the real file length exceeds the threshold
check_file_size(dsk, dir, flist) ==
    IF Len(dsk[dir][current_file(flist)]) > MAX_FILE_SIZE
    THEN create_new_file(dsk, dir, flist)
    ELSE [disk |-> dsk, files |-> flist]

\* the part of append_log_entry that follows the append a of entry to the
\* current file: add to the tracked size, roll over if needed, and build the
\* index entry
after_append(dsk, dir, flist, cfs, entry, a) ==
    LET c == IF cfs + total_byte_size(entry) > MAX_FILE_SIZE
             THEN check_file_size([dsk EXCEPT ![dir][current_file(flist)] = a.bytes],
                                  dir, flist)
             ELSE [disk |-> [dsk EXCEPT ![dir][current_file(flist)] = a.bytes],
                   files |-> flist]
    IN [disk |-> c.disk, files |-> c.files,
        current_file_size |-> cfs + total_byte_size(entry),
        entry |-> MemIndexEntry(current_file(flist), a.value_offset,
                                value_byte_size(entry))]

\* append_log_entry: the new disk, file vector and tracked size, and the
\* index entry of the record
append_log_entry(dsk, dir, flist, cfs, entry) ==
    after_append(dsk, dir, flist, cfs, entry,
                 append_new_entry(dsk[dir][current_file(flist)], entry))

\* the files of a directory that carry a log file name
ExistingFiles(dsk, dir) == {f \in FileIds : dsk[dir][f] # NoFile}

\* the orders in which a directory enumeration (read_dir) may yield a set of
\* files: the order is not specified by the operating system
RECURSIVE Orders(_)
Orders(S) ==
    IF S = {} THEN {<<>>}
    ELSE UNION {{<<x>> \o o : o \in Orders(S \ {x})} : x \in S}

\* sort_by_key on the file id
RECURSIVE SortedIds(_)
SortedIds(S) ==
    IF S = {} THEN <<>>
    ELSE LET x == CHOOSE x \in S : \A y \in S : x <= y
         IN <<x>> \o SortedIds(S \ {x})

\* the map step of to_disk_log_files: DiskLogFile::open on each path, in the
\* order of the input vector, each open scanning its file into the index
RECURSIVE open_files(_, _, _, _, _)
RECURSIVE open_next(_, _, _, _, _)
open_files(dsk, dir, order, i, m) ==
    IF i > Len(order) THEN <<"Ok", m>>
    ELSE IF dsk[dir][order[i]] = NoFile THEN <<"IoError">>
    ELSE open_next(dsk, dir, order, i,
                   populate_mem_index(dsk[dir][order[i]], order[i], 0, m))

\* r is what the scan of file i returned
open_next(dsk, dir, order, i, r) ==
    IF r[1] # "Ok" THEN r ELSE open_files(dsk, dir, order, i + 1, r[2])

\* the end of to_disk_log_files: sort the opened files by file id
sort_files(order, r) ==
    IF r[1] # "Ok" THEN r
    ELSE <<"Ok", [files |-> SortedIds({order[i] : i \in 1..Len(order)}),
                  mem_index |-> r[2]]>>

\* to_disk_log_files: open (and scan) in input order, then sort by file id
to_disk_log_files(dsk, dir, order, m) ==
    sort_files(order, open_files(dsk, dir, order, 1, m))

\* the end of from_disk, r being what to_disk_log_files returned: a new file
\* 0 if there is no file, else the length of the last file as tracked size
file_set(dsk, dir, r) ==
    IF r[1] # "Ok" THEN r
    ELSE IF r[2].files = <<>>
    THEN <<"Ok", [disk |-> [dsk EXCEPT ![dir][0] = <<>>], files |-> <<0>>,
                  current_file_size |-> 0, mem_index |-> r[2].mem_index]>>
    ELSE <<"Ok", [disk |-> dsk, files |-> r[2].files,
                  current_file_size |-> Len(dsk[dir][current_file(r[2].files)]),
                  mem_index |-> r[2].mem_index]>>

\* from_disk on a directory whose enumeration yields the files in order.
\* Result: <<"Ok", file set and index>> or an error.
from_disk(dsk, dir, order) ==
    file_set(dsk, dir, to_disk_log_files(dsk, dir, order, EmptyIndex))

\* the path of the log file with id file_id in the directory dir
path(dir, file_id) == <<dir, file_id>>

\* the directory and the file ids of a vector of paths of one directory
path_dir(paths) == paths[1][1]
path_ids(paths) == [i \in 1..Len(paths) |-> paths[i][2]]

\* immutable_initialization: the snapshot files are opened in the order of
\* the vector of paths handed in
immutable_initialization(dsk, immutable_files) ==
    to_disk_log_files(dsk, path_dir(immutable_files), path_ids(immutable_files),
                      EmptyIndex)

\* get_immutable_files returning the active file too: the files a snapshot
\* holds (C24) tell the two apart
get_all_files(dir, flist) == [i \in 1..Len(flist) |-> path(dir, flist[i])]

\* get_immutable_files: the paths of the files of the vector but the one with
\* the last id
get_immutable_files(dir, flist) ==
    LET ids == SelectSeq(flist, LAMBDA f : f # current_file(flist))
    IN [i \in 1..Len(ids) |-> path(dir, ids[i])]

\* copy_files_to_new_dir moving the files instead of copying them: the
\* source directory after the finish (C26) tells the two apart
move_files_to_new_dir(dsk, dir, flist, immutable_files, new_dir) ==
    [d \in Dirs |-> [f \in FileIds |->
        IF /\ f \in {flist[i] : i \in 1..Len(flist)}
           /\ path(dir, f) \notin {immutable_files[i] : i \in 1..Len(immutable_files)}
        THEN IF d = new_dir THEN dsk[dir][f]
             ELSE IF d = dir THEN NoFile ELSE dsk[d][f]
        ELSE dsk[d][f]]]

\* copy_files_to_new_dir copying no file at all, which leaves the new
\* directory with file 0 only: the file set after a compaction (C10) tells
\* the two apart
copy_no_file(dsk, dir, flist, immutable_files, new_dir) == dsk

\* copy_files_to_new_dir: copy the files of the file set whose path is not
\* among the paths of the snapshot
copy_files_to_new_dir(dsk, dir, flist, immutable_files, new_dir) ==
    [dsk EXCEPT ![new_dir] =
       [f \in FileIds |->
          IF /\ f \in {flist[i] : i \in 1..Len(flist)}
             /\ path(dir, f) \notin
                   {immutable_files[i] : i \in 1..Len(immutable_files)}
          THEN dsk[dir][f] ELSE dsk[new_dir][f]]]

(***************************************************************************)
(* storage.rs: the storage engine.                                         *)
(***************************************************************************)
\* the match of LogStorage::get on what disk_log.get returned: an error is
\* logged and None returned; a panic unwinds through get
value_or_none(res) ==
    IF res = Panic THEN Panic
    ELSE IF res[1] = "Ok" THEN Some(res[2])
    ELSE None

\* LogStorage::get on an engine with the given index and file set
engine_get(dsk, dir, flist, m, key) ==
    IF key \notin DOMAIN m THEN None
    ELSE IF is_tombstone(m[key]) THEN None
    ELSE value_or_none(disk_log_get(dsk, dir, flist, m[key]))

\* the Err arm of LogStorage::get dropping the key whose read failed from
\* the index: the index entry after a failed read (C31) tells the two apart
log_read_error_evicting(m, key) == index_delete(m, key)

\* the Err arm of the match of LogStorage::get: the error is logged and the
\* index, which get holds by shared reference, stays as it is
log_read_error(m, key) == m

\* DiskLogFileStorage::get under an environment in which the seek or the
\* read_exact of the positioned read fails (io = "IoError") or does what the
\* bytes of the file allow (io = "Ok"); get_file comes first and may panic
disk_log_get_io(dsk, dir, flist, e, io) ==
    IF io = "IoError" /\ get_file(flist, e.file_id) # Panic THEN <<"IoError">>
    ELSE disk_log_get(dsk, dir, flist, e)

\* the arms of the match of LogStorage::get on res, the result of
\* disk_log.get for key: the value returned and the index left behind
get_match(m, key, res) ==
    [value |-> value_or_none(res),
     mem_index |-> IF res # Panic /\ res[1] # "Ok" THEN log_read_error(m, key)
                   ELSE m]

\* LogStorage::get as a call: the value it returns and the index it leaves
get_call(dsk, dir, flist, m, key, io) ==
    IF key \notin DOMAIN m THEN [value |-> None, mem_index |-> m]
    ELSE IF is_tombstone(m[key]) THEN [value |-> None, mem_index |-> m]
    ELSE get_match(m, key, disk_log_get_io(dsk, dir, flist, m[key], io))

\* the loop of start_compaction over the keys of the local index, in
\* iteration order: read the value through the snapshot file set and append
\* a fresh record to the new file.  Result: the outcome and the bytes of the
\* new file when the loop ends or is left.
RECURSIVE compaction_loop(_, _, _, _, _, _, _)
RECURSIVE compaction_next(_, _, _, _, _, _, _, _)
compaction_loop(dsk, dir, flist, m, keys, i, out) ==
    IF i > Len(keys) THEN [res |-> "Ok", bytes |-> out]
    ELSE compaction_next(dsk, dir, flist, m, keys, i, out,
                         disk_log_get(dsk, dir, flist, m[keys[i]]))

\* v is what disk_logs.get returned for key i
compaction_next(dsk, dir, flist, m, keys, i, out, v) ==
    IF v = Panic THEN [res |-> "Panic", bytes |-> out]
    ELSE IF v[1] # "Ok" THEN [res |-> v[1], bytes |-> out]
    ELSE compaction_loop(dsk, dir, flist, m, keys, i + 1,
                         append_new_entry(out, new_entry(keys[i], v[2])).bytes)

\* start_compaction after the new file 0 was opened and the snapshot was
\* scanned with result r
compact_snapshot(dsk, dir, new_dir, r) ==
    IF r[1] # "Ok" THEN [res |-> r[1], bytes |-> dsk[new_dir][0]]
    ELSE compaction_loop(dsk, dir, r[2].files, r[2].mem_index,
                         SortedKeys(DOMAIN r[2].mem_index), 1, dsk[new_dir][0])

\* DiskLogFile::new(dir, file_id): create + append, an existing file is kept
new_log_file(dsk, dir, file_id) ==
    IF dsk[dir][file_id] = NoFile THEN [dsk EXCEPT ![dir][file_id] = <<>>] ELSE dsk

\* start_compaction(immutable_files, new_dir): the outcome and the bytes of
\* file 0 of new_dir
start_compaction(dsk, immutable_files, new_dir) ==
    compact_snapshot(new_log_file(dsk, new_dir, 0), path_dir(immutable_files),
                     new_dir, immutable_initialization(dsk, immutable_files))

VARIABLES
    disk,               \* [Dirs -> [FileIds -> bytes or NoFile]]
    data_dir,           \* LogStorage.data_dir
    files,              \* DiskLogFileStorage.files (ids, in vector order)
    current_file_size,  \* DiskLogFileStorage.current_file_size
    mem_index,          \* LogStorage.mem_index
    lastWrite,          \* history: per key, the last successful write
    nwrites,            \* history: number of records appended by put/delete
    cpc,                \* compact_to_new_dir: "idle"; in flight "prepared" or
                        \* "built"; just returned "Ok", "IoError",
                        \* "CorruptedData"; just panicked "Panic"
    immutable_files,    \* compact_to_new_dir: the snapshot (file ids)
    new_dir,            \* compact_to_new_dir: the target directory (data_dir
                        \* while no compaction is in flight)
    pre,                \* history: the engine just before the last prepare
    cw,                 \* history: a write completed since the last prepare
    second,             \* a second compact_to_new_dir call on the shared
                        \* engine: its position (cpc), snapshot and target
    opened,             \* "Ok": the engine is open; "flipped", "torn": it was
                        \* dropped and the directory damaged; "IoError",
                        \* "CorruptedData": LogStorage::new returned this error
    nfailed,            \* history: number of the write calls whose append
                        \* path returned an error
    lastRead,           \* history: the last get or size call and what it
                        \* returned; <<"none">> before the first call
    scan                \* LogStorage::new running step by step: the directory
                        \* enumeration, the file being scanned, and the
                        \* locals of populate_mem_index (file_size, cursor,
                        \* the index under construction); history: the
                        \* records applied from the current file

vars == <<disk, data_dir, files, current_file_size, mem_index, lastWrite,
          nwrites, cpc, immutable_files, new_dir, pre, cw, second, opened, nfailed,
          lastRead, scan>>

faults == <<opened, nfailed, lastRead, scan>>

engine == <<data_dir, files, current_file_size, mem_index>>
compaction == <<cpc, immutable_files, new_dir, pre>>

get(key) == engine_get(disk, data_dir, files, mem_index, key)

size == index_size(mem_index)

\* no LogStorage::new is running
NoScan ==
    [pos |-> "idle", order |-> <<>>, idx |-> 0, file_size |-> 0, cursor |-> 0,
     mem_index |-> EmptyIndex, applied |-> <<>>]

\* the history variables pre and cw are kept from a prepare up to the state
\* that the finish (or the failed build) leaves; the next call clears them
NoPre == [get |-> [k \in KEYS |-> None], live |-> {}, snapshot |-> <<>>]

InFlight == cpc \in {"prepared", "built"}

\* no second call has been made
NoSecond == [cpc |-> "idle", immutable_files |-> <<>>, new_dir |-> 1]

InFlight2 == second.cpc \in {"prepared", "built"}

\* the write guard of the storage in a compact_to_new_dir call that stands
\* at position c: the call takes it for prepare_compaction, drops it before
\* start_compaction and takes it again for finish_compaction, so it holds
\* the lock inside the prepare and finish steps only and at none of the
\* positions between the steps
compaction_holds_lock(c) ==
    c \notin {"idle", "prepared", "built", "Ok", "IoError", "CorruptedData",
              "Panic"}

\* the RwLock of the storage is held by a compact_to_new_dir call
LockHeld == compaction_holds_lock(cpc) \/ compaction_holds_lock(second.cpc)

Forget ==
    /\ pre' = IF InFlight THEN pre ELSE NoPre
    /\ cpc' = IF InFlight THEN cpc ELSE "idle"
    /\ UNCHANGED <<immutable_files, new_dir>>

\* LogStorage::new on an empty directory: from_disk finds no file and
\* DiskLogFileStorage::new creates file 0
Init ==
    /\ disk = [d \in Dirs |-> [f \in FileIds |->
                 IF d = 1 /\ f = 0 THEN <<>> ELSE NoFile]]
    /\ data_dir = 1
    /\ files = <<0>>
    /\ current_file_size = 0
    /\ mem_index = EmptyIndex
    /\ lastWrite = [k \in KEYS |-> <<"never">>]
    /\ nwrites = 0
    /\ cpc = "idle"
    /\ immutable_files = <<>>
    /\ new_dir = 1
    /\ pre = NoPre
    /\ cw = FALSE
    /\ second = NoSecond
    /\ opened = "Ok"
    /\ nfailed = 0
    /\ lastRead = <<"none">>
    /\ scan = NoScan

\* the append of entry makes append_log_entry create a new file
Rolls(entry) ==
    /\ current_file_size + total_byte_size(entry) > MAX_FILE_SIZE
    /\ Len(disk[data_dir][current_file(files)]) + total_byte_size(entry)
          > MAX_FILE_SIZE

\* the append of one record and the index update that follows it
\* (disk_log.put / disk_log.delete, then mem_index.put); written is what the
\* history keeps of the call
Write(key, written, entry) ==
    /\ opened = "Ok"
    /\ ~LockHeld
    /\ nwrites < MaxWrites
    /\ Rolls(entry) => current_file(files) < MaxFileId
    /\ LET Done(r) ==
             /\ disk' = r.disk
             /\ files' = r.files
             /\ current_file_size' = r.current_file_size
             /\ mem_index' = index_put(mem_index, key, r.entry)
       IN Done(append_log_entry(disk, data_dir, files, current_file_size, entry))
    /\ lastWrite' = [lastWrite EXCEPT ![key] = written]
    /\ nwrites' = nwrites + 1
    /\ cw' = InFlight
    /\ Forget
    /\ UNCHANGED <<data_dir, second, faults>>

\* a call that returns res before it touches anything
Rejected(res) ==
    /\ opened = "Ok"
    /\ ~LockHeld
    /\ res # "Ok"
    /\ cw' = (cw /\ InFlight)
    /\ Forget
    /\ UNCHANGED <<disk, engine, lastWrite, nwrites, second, faults>>

\* the index after a write whose disk_log.put / disk_log.delete returned an
\* error, with the index update made all the same: the untouched index (C12)
\* tells the two apart
append_error_indexed(m, key, e) == index_put(m, key, e)

\* the index after a write whose disk_log.put / disk_log.delete returned an
\* error: the ? operator returns before mem_index.put, e being the entry the
\* call would have inserted
append_error(m, key, e) == m

\* a write call whose append path returns an error.  The error comes from
\* append_new_entry (seek, one of the write_all calls of serialize, flush:
\* n < total bytes of the record have reached the file, the tracked size is
\* not updated) or from check_file_size after the whole record was appended
\* and the tracked size updated (metadata or the creation of the next file
\* fails: n = total, reached only past the threshold); no file is pushed.
FailedWriteAt(key, entry, n) ==
    /\ opened = "Ok"
    /\ ~LockHeld
    /\ nfailed < MaxFailedWrites
    /\ n \in 0..total_byte_size(entry)
    /\ n = total_byte_size(entry)
          => current_file_size + total_byte_size(entry) > MAX_FILE_SIZE
    /\ disk' = [disk EXCEPT ![data_dir][current_file(files)] =
                               @ \o SubSeq(serialize(entry), 1, n)]
    /\ current_file_size' =
          IF n = total_byte_size(entry)
          THEN current_file_size + total_byte_size(entry)
          ELSE current_file_size
    /\ mem_index' = append_error(mem_index, key,
                                 MemIndexEntry(current_file(files),
                                               Len(disk[data_dir][current_file(files)])
                                                 + value_byte_offset(entry),
                                               value_byte_size(entry)))
    /\ nfailed' = nfailed + 1
    /\ cw' = (cw /\ InFlight)
    /\ Forget
    /\ UNCHANGED <<data_dir, files, lastWrite, nwrites, second, opened,
                   lastRead, scan>>

FailedWrite(key, entry) ==
    \E n \in 0..total_byte_size(entry) : FailedWriteAt(key, entry, n)

\* the lengths at which the write_all calls of serialize end before the key
\* is written: the checksum, the key size, the value size
HeaderWrites == {check_sum_byte_size, check_sum_byte_size + size_byte_len,
                 check_sum_byte_size + size_byte_len * 2}

\* a put or delete call that fails in check_file_size, after the whole
\* record was appended: metadata or the creation of the next file fails
FailedRollover ==
    \E e \in {new_entry(k, v) : k \in KEYS, v \in VALUES}
                \cup {new_tombstone(k) : k \in KEYS} :
       FailedWriteAt(e.key, e, total_byte_size(e))

\* a delete call that fails between two write_all calls of the header
TornDelete ==
    \E k \in KEYS, n \in HeaderWrites : FailedWriteAt(k, new_tombstone(k), n)

put_without_option(key, value) ==
    Write(key, <<"put", value>>, new_entry(key, value))

\* put_nx without its check of the index: a put NX of a live key (C23) tells
\* the two apart
put_nx_unchecked(m, key) == "Ok"

\* the check that put_nx makes on the index before it appends
put_nx_check(m, key) ==
    IF key \in DOMAIN m /\ ~is_tombstone(m[key]) THEN "KeyExists" ELSE "Ok"

put_nx(key, value) ==
    IF put_nx_check(mem_index, key) # "Ok"
    THEN Rejected(put_nx_check(mem_index, key))
    ELSE Write(key, <<"put", value>>, new_entry(key, value))

\* the check that put_xx makes on the index before it appends
put_xx_check(m, key) ==
    IF key \in DOMAIN m
    THEN IF is_tombstone(m[key]) THEN "KeyNotFound" ELSE "Ok"
    ELSE "KeyNotFound"

put_xx(key, value) ==
    IF put_xx_check(mem_index, key) # "Ok"
    THEN Rejected(put_xx_check(mem_index, key))
    ELSE Write(key, <<"put", value>>, new_entry(key, value))

delete(key) == Write(key, <<"del">>, new_tombstone(key))

Put == \E k \in KEYS, v \in VALUES : put_without_option(k, v)
PutNx == \E k \in KEYS, v \in VALUES : put_nx(k, v)

\* the write calls returning an error from the append path: put plain, put
\* NX and put XX past their check on the index, and delete
FailedPut == \E k \in KEYS, v \in VALUES : FailedWrite(k, new_entry(k, v))

FailedPutNx ==
    \E k \in KEYS, v \in VALUES :
        put_nx_check(mem_index, k) = "Ok" /\ FailedWrite(k, new_entry(k, v))

FailedPutXx ==
    \E k \in KEYS, v \in VALUES :
        put_xx_check(mem_index, k) = "Ok" /\ FailedWrite(k, new_entry(k, v))

FailedDelete == \E k \in KEYS : FailedWrite(k, new_tombstone(k))
PutXx == \E k \in KEYS, v \in VALUES : put_xx(k, v)
Delete == \E k \in KEYS : delete(k)

\* the puts of a value of at least one byte
PutValue == \E k \in KEYS, v \in VALUES \ {<<>>} : put_without_option(k, v)
PutNxValue == \E k \in KEYS, v \in VALUES \ {<<>>} : put_nx(k, v)
PutXxValue == \E k \in KEYS, v \in VALUES \ {<<>>} : put_xx(k, v)

\* the engine takes the file set and the index that from_disk returned
Opened(r) ==
    /\ r[1] = "Ok"
    /\ disk' = r[2].disk
    /\ files' = r[2].files
    /\ current_file_size' = r[2].current_file_size
    /\ mem_index' = r[2].mem_index

\* drop the engine and LogStorage::new on the same directory, the directory
\* enumeration yielding the files in some order
Reopen ==
    /\ ~InFlight
    /\ \E order \in Orders(ExistingFiles(disk, data_dir)) :
         Opened(from_disk(disk, data_dir, order))
    /\ cw' = FALSE
    /\ Forget
    /\ UNCHANGED <<data_dir, lastWrite, nwrites, second, faults>>

\* the file that the running LogStorage::new is scanning
ScannedFile == scan.order[scan.idx]

\* populate_mem_index entered for the file at place idx of the enumeration
\* order: file_size is read from the metadata and the cursor starts at 0
scan_file(order, idx, m) ==
    [pos |-> "loop", order |-> order, idx |-> idx,
     file_size |-> Len(disk[data_dir][order[idx]]), cursor |-> 0,
     mem_index |-> m, applied |-> <<>>]

\* the scan loop moving the cursor to the end of the header where the end of
\* the record belongs: the cursor after a value record (C32) tells the two
\* apart
next_cursor_after_header(cursor, entry) == cursor + value_byte_offset(entry)

\* cursor += entry_size
next_cursor(cursor, entry) == cursor + total_byte_size(entry)

\* drop the engine and enter LogStorage::new on the same directory: from_disk
\* enumerates the directory in some order and opens the first file
ScanStart ==
    /\ opened = "Ok"
    /\ ~LockHeld
    /\ ~InFlight
    /\ scan.pos = "idle"
    /\ \E order \in Orders(ExistingFiles(disk, data_dir)) :
          scan' = scan_file(order, 1, EmptyIndex)
    /\ opened' = "scanning"
    /\ UNCHANGED <<disk, engine, lastWrite, nwrites, compaction, cw, second,
                   nfailed, lastRead>>

\* one turn of the loop of populate_mem_index below the end of the file:
\* deserialize one record, apply it to the index, advance the cursor; an
\* error of deserialize ends LogStorage::new with that error
ScanTurn ==
    /\ scan.pos = "loop"
    /\ scan.cursor < scan.file_size
    /\ \E r \in {deserialize(disk[data_dir][ScannedFile], scan.cursor)} :
          IF r[1] # "Ok"
          THEN scan' = NoScan /\ opened' = r[1]
          ELSE /\ scan' = [scan EXCEPT
                             !.cursor = next_cursor(@, r[2]),
                             !.mem_index = scan_entry(@, ScannedFile,
                                                      scan.cursor, r[2]),
                             !.applied = Append(@, r[2])]
               /\ opened' = opened
    /\ UNCHANGED <<disk, engine, lastWrite, nwrites, compaction, cw, second,
                   nfailed, lastRead>>

\* the turn of the loop that finds the cursor at or beyond file_size: break.
\* from_disk opens the next file of the enumeration, or, after the last one,
\* sorts the files and returns, and the engine takes what it returned
ScanBreak ==
    /\ scan.pos = "loop"
    /\ scan.cursor >= scan.file_size
    /\ IF scan.idx < Len(scan.order)
       THEN /\ scan' = scan_file(scan.order, scan.idx + 1, scan.mem_index)
            /\ UNCHANGED <<disk, engine, compaction, cw, opened>>
       ELSE /\ Opened(file_set(disk, data_dir,
                               sort_files(scan.order, <<"Ok", scan.mem_index>>)))
            /\ scan' = NoScan
            /\ opened' = "Ok"
            /\ cw' = FALSE
            /\ Forget
            /\ UNCHANGED data_dir
    /\ UNCHANGED <<lastWrite, nwrites, second, nfailed, lastRead>>

\* the offsets at which the records of a well-formed log file start, from
\* pos on
RECURSIVE record_starts(_, _)
RECURSIVE record_starts_next(_, _, _)
record_starts(bytes, pos) ==
    IF pos >= Len(bytes) THEN {}
    ELSE record_starts_next(bytes, pos, deserialize(bytes, pos))

record_starts_next(bytes, pos, r) ==
    IF r[1] # "Ok" THEN {}
    ELSE {pos} \cup record_starts(bytes, pos + total_byte_size(r[2]))

\* the file bytes with the byte at offset at (from 0) xored with mask
damage(bytes, at, mask) == [bytes EXCEPT ![at + 1] = XorN(@, mask, 8)]

\* the engine is dropped, and one value byte of one value record of one log
\* file of the directory, live or superseded, is changed on disk so that the
\* value no longer matches the checksum stored in the record
FlipAt(f, s, entry) ==
    /\ entry.value # None
    /\ \E i \in 0..(value_byte_size(entry) - 1), mask \in FlipMasks :
          LET at == s + value_byte_offset(entry) + i
              Damaged(bytes) ==
                  /\ entry.check_sum
                       # checksum(ReadAt(bytes, s + value_byte_offset(entry),
                                        value_byte_size(entry)))
                  /\ disk' = [disk EXCEPT ![data_dir][f] = bytes]
          IN Damaged(damage(disk[data_dir][f], at, mask))

Flip ==
    /\ opened = "Ok"
    /\ ~InFlight
    /\ \E f \in ExistingFiles(disk, data_dir) :
          \E s \in record_starts(disk[data_dir][f], 0) :
             FlipAt(f, s, deserialize(disk[data_dir][f], s)[2])
    /\ opened' = "flipped"
    /\ UNCHANGED <<data_dir, files, current_file_size, mem_index, lastWrite,
                   nwrites, compaction, cw, second, nfailed,
                   lastRead, scan>>

\* the engine is dropped (a crash in the middle of an append), and the active
\* file is cut inside its last record: at least one byte of the record is
\* left and at least one is missing
TruncateAt(s, entry) ==
    \E n \in 1..(total_byte_size(entry) - 1) :
        disk' = [disk EXCEPT ![data_dir][current_file(files)] =
                                 SubSeq(@, 1, s + n)]

last_record(starts) == CHOOSE s \in starts : \A t \in starts : t <= s

Truncate ==
    /\ opened = "Ok"
    /\ ~InFlight
    /\ record_starts(disk[data_dir][current_file(files)], 0) # {}
    /\ LET Cut(s) ==
              TruncateAt(s, deserialize(disk[data_dir][current_file(files)], s)[2])
       IN Cut(last_record(record_starts(disk[data_dir][current_file(files)], 0)))
    /\ opened' = "torn"
    /\ UNCHANGED <<data_dir, files, current_file_size, mem_index, lastWrite,
                   nwrites, compaction, cw, second, nfailed,
                   lastRead, scan>>

\* LogStorage::new on the damaged directory, the directory enumeration
\* yielding the files in some order: the engine is open again, or the call
\* returns the error of the scan
Open ==
    /\ opened \in {"flipped", "torn"}
    /\ \E order \in Orders(ExistingFiles(disk, data_dir)) :
          LET Result(r) ==
                  IF r[1] = "Ok" THEN Opened(r) /\ opened' = "Ok"
                  ELSE /\ opened' = r[1]
                       /\ UNCHANGED <<disk, files, current_file_size, mem_index>>
          IN Result(from_disk(disk, data_dir, order))
    /\ UNCHANGED <<data_dir, lastWrite, nwrites, compaction, cw, second, nfailed,
                   lastRead, scan>>

\* the keys with a non-tombstone entry in the index
LiveKeys(m) == {k \in DOMAIN m : ~is_tombstone(m[k])}

\* compact_to_new_dir, first phase, under the write lock: prepare_compaction.
\* The caller hands in a directory that holds no log file yet.
Prepare ==
    /\ ~LockHeld
    /\ ~InFlight
    /\ \E nd \in Dirs :
         /\ nd # data_dir
         /\ ExistingFiles(disk, nd) = {}
         /\ \A d \in 1..(nd - 1) : d = data_dir \/ ExistingFiles(disk, d) # {}
         /\ new_dir' = nd
    /\ current_file(files) < MaxFileId
    /\ LET Done(c) ==
             /\ disk' = c.disk
             /\ files' = c.files
             /\ immutable_files' = get_immutable_files(data_dir, c.files)
       IN Done(create_new_file(disk, data_dir, files))
    /\ cpc' = "prepared"
    /\ pre' = [get |-> [k \in KEYS |-> get(k)], live |-> LiveKeys(mem_index),
               snapshot |-> files]
    /\ cw' = FALSE
    /\ UNCHANGED <<data_dir, current_file_size, mem_index, lastWrite, nwrites,
                   second, faults>>

\* second phase, without the lock: start_compaction.  An error or a panic
\* ends compact_to_new_dir; the engine stays as prepare left it.
Build ==
    /\ cpc = "prepared"
    /\ LET Done(b) ==
             /\ disk' = [disk EXCEPT ![new_dir][0] = b.bytes]
             /\ cpc' = IF b.res = "Ok" THEN "built" ELSE b.res
             /\ immutable_files' = IF b.res = "Ok" THEN immutable_files ELSE <<>>
             /\ new_dir' = IF b.res = "Ok" THEN new_dir ELSE data_dir
       IN Done(start_compaction(disk, immutable_files, new_dir))
    /\ UNCHANGED <<engine, lastWrite, nwrites, pre, cw, second, faults>>

\* finish_compaction assigning the new data directory before from_disk is
\* known to have succeeded: the engine after a failed finish (C27) tells the
\* two apart
finish_compaction_switched(dsk1, dir, flist, cfs, m, new_log_files_dir, r) ==
    IF r[1] = "Ok"
    THEN [res |-> "Ok", disk |-> r[2].disk, data_dir |-> new_log_files_dir,
          files |-> r[2].files, current_file_size |-> r[2].current_file_size,
          mem_index |-> r[2].mem_index]
    ELSE [res |-> r[1], disk |-> dsk1, data_dir |-> new_log_files_dir,
          files |-> flist, current_file_size |-> cfs, mem_index |-> m]

\* the engine after finish_compaction, dsk1 being the disk after the copy
\* and r what from_disk returned on the new directory: on Ok the new file
\* set, index and data directory are installed; on an error the ? operator
\* returns before any field of the storage is assigned
finish_compaction(dsk1, dir, flist, cfs, m, new_log_files_dir, r) ==
    IF r[1] = "Ok"
    THEN [res |-> "Ok", disk |-> r[2].disk, data_dir |-> new_log_files_dir,
          files |-> r[2].files, current_file_size |-> r[2].current_file_size,
          mem_index |-> r[2].mem_index]
    ELSE [res |-> r[1], disk |-> dsk1, data_dir |-> dir, files |-> flist,
          current_file_size |-> cfs, mem_index |-> m]

\* third phase, under the write lock: finish_compaction.  An error ends
\* compact_to_new_dir; the files copied so far stay in the new directory.
Finish ==
    /\ ~LockHeld
    /\ cpc = "built"
    /\ LET Done(e) ==
             /\ disk' = e.disk
             /\ data_dir' = e.data_dir
             /\ files' = e.files
             /\ current_file_size' = e.current_file_size
             /\ mem_index' = e.mem_index
             /\ cpc' = e.res
             /\ new_dir' = e.data_dir
           Copied(dsk1) ==
             \E order \in Orders(ExistingFiles(dsk1, new_dir)) :
                Done(finish_compaction(dsk1, data_dir, files, current_file_size,
                                       mem_index, new_dir,
                                       from_disk(dsk1, new_dir, order)))
       IN Copied(copy_files_to_new_dir(disk, data_dir, files, immutable_files,
                                       new_dir))
    /\ immutable_files' = <<>>
    /\ UNCHANGED <<lastWrite, nwrites, pre, cw, second, faults>>

\* a second thread calls compact_to_new_dir on the shared engine while the
\* call of the first is in flight: its prepare phase takes the write lock,
\* which the first call holds in its prepare and finish phases only
Prepare2 ==
    /\ ~LockHeld
    /\ InFlight
    /\ second.cpc = "idle"
    /\ current_file(files) < MaxFileId
    /\ \E nd \in Dirs :
         /\ nd \notin {data_dir, new_dir}
         /\ ExistingFiles(disk, nd) = {}
         /\ \A d \in 1..(nd - 1) :
               d \in {data_dir, new_dir} \/ ExistingFiles(disk, d) # {}
         /\ LET Done(c) ==
                  /\ disk' = c.disk
                  /\ files' = c.files
                  /\ second' = [cpc |-> "prepared",
                                immutable_files |->
                                    get_immutable_files(data_dir, c.files),
                                new_dir |-> nd]
            IN Done(create_new_file(disk, data_dir, files))
    /\ UNCHANGED <<data_dir, current_file_size, mem_index, lastWrite, nwrites,
                   compaction, cw, faults>>

\* the build phase of the second call; an error or a panic ends the call
Build2 ==
    /\ second.cpc = "prepared"
    /\ LET Done(b) ==
             /\ disk' = [disk EXCEPT ![second.new_dir][0] = b.bytes]
             /\ second' = [second EXCEPT
                              !.cpc = IF b.res = "Ok" THEN "built" ELSE b.res]
       IN Done(start_compaction(disk, second.immutable_files, second.new_dir))
    /\ UNCHANGED <<engine, lastWrite, nwrites, compaction, cw, faults>>

\* the finish phase of the second call
Finish2 ==
    /\ ~LockHeld
    /\ second.cpc = "built"
    /\ LET Copied(dsk1) ==
             \E order \in Orders(ExistingFiles(dsk1, second.new_dir)) :
                Opened(from_disk(dsk1, second.new_dir, order))
       IN Copied(copy_files_to_new_dir(disk, data_dir, files,
                                       second.immutable_files, second.new_dir))
    /\ data_dir' = second.new_dir
    /\ second' = [second EXCEPT !.cpc = "Ok"]
    /\ UNCHANGED <<lastWrite, nwrites, compaction, cw, faults>>

\* a get call under the read guard of the storage; the environment makes
\* the positioned read fail or not (the read is reached for a live key only)
GetCall(k, io) ==
    /\ opened = "Ok"
    /\ ~LockHeld
    /\ io = "IoError" => k \in LiveKeys(mem_index)
    /\ LET Done(r) ==
             /\ lastRead' = <<"get", k, io, r.value>>
             /\ mem_index' = r.mem_index
       IN Done(get_call(disk, data_dir, files, mem_index, k, io))
    /\ UNCHANGED <<disk, data_dir, files, current_file_size, lastWrite, nwrites,
                   compaction, cw, second, opened, nfailed, scan>>

Get == \E k \in KEYS, io \in {"Ok", "IoError"} : GetCall(k, io)

\* a size call under the read guard of the storage
Size ==
    /\ opened = "Ok"
    /\ ~LockHeld
    /\ lastRead' = <<"size", index_size(mem_index)>>
    /\ UNCHANGED <<disk, engine, lastWrite, nwrites, compaction, cw, second,
                   opened, nfailed, scan>>

NextLog == Put \/ PutNx \/ PutXx \/ Delete

\* one engine, puts and deletes only
SpecLog == Init /\ [][NextLog]_vars

NextReopen == NextLog \/ Reopen

\* puts, deletes and close/reopen cycles, no compaction
SpecReopen == Init /\ [][NextReopen]_vars

Next == NextLog \/ Reopen \/ Prepare \/ Build \/ Finish

\* the whole engine
Spec == Init /\ [][Next]_vars

\* two threads compacting the shared engine, next to the writers
NextTwo ==
    NextLog \/ Prepare \/ Build \/ Finish \/ Prepare2 \/ Build2 \/ Finish2

SpecTwo == Init /\ [][NextTwo]_vars

\* the log with write calls that fail in the append path
NextFail == NextLog \/ FailedPut \/ FailedPutNx \/ FailedPutXx \/ FailedDelete

SpecFail == Init /\ [][NextFail]_vars

\* the log with damage to the files of a closed engine and the next open
NextFault == NextLog \/ Flip \/ Truncate \/ Open

SpecFault == Init /\ [][NextFault]_vars

\* the log without puts of the empty value
NextNonEmpty == PutValue \/ PutNxValue \/ PutXxValue \/ Delete

SpecNonEmpty == Init /\ [][NextNonEmpty]_vars

\* puts and deletes, one of which fails between two write_all calls of the
\* header or in check_file_size, and reopens
NextFailReopen == Put \/ Delete \/ TornDelete \/ FailedRollover \/ Reopen

SpecFailReopen == Init /\ [][NextFailReopen]_vars

\* compactions of an engine one of whose delete calls fails in the append
\* path and leaves part of a record header in the active file
NextCompactFail == Put \/ Delete \/ TornDelete \/ Prepare \/ Build \/ Finish

SpecCompactFail == Init /\ [][NextCompactFail]_vars

\* puts, deletes and close/reopen cycles next to get and size calls
NextRead == NextLog \/ Reopen \/ Get \/ Size

SpecRead == Init /\ [][NextRead]_vars

\* puts and deletes, and close/reopen cycles whose recovery scan is taken
\* one turn of the loop at a time
NextScan == NextLog \/ ScanStart \/ ScanTurn \/ ScanBreak

\* the thread that opens the engine runs: its loop takes its next turn
SpecScan ==
    Init /\ [][NextScan]_vars /\ WF_vars(ScanTurn) /\ WF_vars(ScanBreak)

(***************************************************************************)
(* The properties.                                                         *)
(***************************************************************************)
\* what the history says get(k) has to return: the value of the last
\* successful write if it was a put, absent if it was a delete or if k was
\* never written
Expected(k) ==
    IF lastWrite[k][1] = "put" THEN Some(lastWrite[k][2]) ELSE None

Present(r) == r # None /\ r # Panic

\* C1 (last write wins): after any sequence of put, put-NX, put-XX and delete
\* calls on one engine, rollovers included, get(k) returns the value of the
\* last successful put to k if the last successful write to k was a put of a
\* non-empty value, and absent if it was a delete or if k was never written.
C1_LastWriteWins ==
    \A k \in KEYS : lastWrite[k] # <<"put", <<>>>> => get(k) = Expected(k)

\* a key overwritten in a later file than the one of its first record, next
\* to a deleted key
C1_Witness ==
    /\ Len(files) >= 3
    /\ \E k \in KEYS :
         /\ lastWrite[k][1] = "put" /\ lastWrite[k][2] # <<>>
         /\ mem_index[k].file_id >= 1
         /\ get(k) = Some(lastWrite[k][2])
    /\ \E k \in KEYS : lastWrite[k] = <<"del">> /\ get(k) = None

\* C2 (round trip for every value): after a successful put(k, v), with no
\* other write to k since, get(k) returns exactly v, for v of any length,
\* length 0 included.
C2_RoundTrip ==
    \A k \in KEYS : lastWrite[k][1] = "put" => get(k) = Some(lastWrite[k][2])

\* C3 (delete erases): after a delete(k), get(k) returns absent in every
\* later state until a later successful put to k.
C3_DeleteErases ==
    \A k \in KEYS : lastWrite[k] = <<"del">> => get(k) = None

\* C4 (NX/XX semantics): in every reachable state put-NX succeeds exactly
\* when get(k) is absent and fails with KeyExists otherwise; put-XX succeeds
\* exactly when get(k) is present and fails with KeyNotFound otherwise.
C4_NxXx ==
    \A k \in KEYS :
       /\ put_nx_check(mem_index, k) = (IF get(k) = None THEN "Ok" ELSE "KeyExists")
       /\ put_xx_check(mem_index, k) =
             (IF Present(get(k)) THEN "Ok" ELSE "KeyNotFound")

\* C5 (durability across reopen): dropping the engine and opening a new one
\* on the same directory leaves get(k) as it was, for every key.
C5_Durable ==
    [][Reopen => \A k \in KEYS : get(k)' = get(k)]_vars

\* C8 (size invariant): without compaction, size() is the number of the keys
\* that have at least one record in the log, the tombstoned ones included.
C8_Size ==
    size = Cardinality({k \in KEYS : lastWrite[k] # <<"never">>})

\* compact_to_new_dir has just ended: returned Ok or an error, or panicked
Ended == cpc \in {"Ok", "IoError", "CorruptedData", "Panic"}

\* a fresh engine, opened with result r on the directory dir, answers every
\* get as the engine did just before the prepare, and counts its live keys
FreshAgrees(dir, r) ==
    /\ r[1] = "Ok"
    /\ \A k \in KEYS :
         engine_get(r[2].disk, dir, r[2].files, r[2].mem_index, k) = pre.get[k]
    /\ index_size(r[2].mem_index) = Cardinality(pre.live)

\* C6 (compaction equivalence): a compaction without concurrent writes,
\* started in any state reachable by puts, deletes, rollovers, reopens and
\* earlier compactions, completes and leaves the engine and a fresh engine
\* opened on the new directory answering get(k) for every key as the engine
\* did just before, with size() the number of the live keys of the original.
C6_CompactionEquivalence ==
    (Ended /\ ~cw) =>
        /\ cpc = "Ok"
        /\ \A k \in KEYS : get(k) = pre.get[k]
        /\ size = Cardinality(pre.live)
        /\ \A order \in Orders(ExistingFiles(disk, data_dir)) :
              FreshAgrees(data_dir, from_disk(disk, data_dir, order))

\* C7 (no write lost to a concurrent compaction): after the finish of a
\* compaction, get(k) is the result of the last successful write to k, the
\* writes made before and during the compaction counted (the keys whose last
\* write is a put of the empty value left aside).
C7_NoWriteLost ==
    cpc = "Ok" =>
        \A k \in KEYS : lastWrite[k] # <<"put", <<>>>> => get(k) = Expected(k)

\* the records of a log file from pos on, as the recovery scan reads them;
\* an unreadable rest counts as one tombstone record of the empty key
RECURSIVE records(_, _)
RECURSIVE records_next(_, _, _)
records(bytes, pos) ==
    IF pos >= Len(bytes) THEN <<>>
    ELSE records_next(bytes, pos, deserialize(bytes, pos))

records_next(bytes, pos, r) ==
    IF r[1] # "Ok" THEN <<new_tombstone(<<>>)>>
    ELSE <<r[2]>> \o records(bytes, pos + total_byte_size(r[2]))

\* recs holds exactly one value record for each live key of the engine just
\* before the prepare, with the key's latest value, and nothing else
OneRecordPerLiveKey(recs) ==
    /\ Len(recs) = Cardinality(pre.live)
    /\ \A k \in pre.live :
         \E i \in 1..Len(recs) : recs[i].key = k /\ recs[i].value = Expected(k)

\* C9 (compacted file content): a compaction without concurrent writes
\* completes, and file 0 of the new directory then holds exactly one value
\* record for each key that was live in the original engine, carrying the
\* key's latest value, and no tombstone record and no superseded record.
C9_CompactedFile ==
    (Ended /\ ~cw) =>
        /\ cpc = "Ok"
        /\ OneRecordPerLiveKey(records(disk[data_dir][0], 0))

\* C10 as stated (new directory holds file 0 only): after a compaction
\* without concurrent writes, the new directory contains file 0 and no other
\* log file.
C10_FileZeroOnly ==
    (cpc = "Ok" /\ ~cw) => ExistingFiles(disk, data_dir) = {0}

\* C10 as amended: after a compaction without concurrent writes that
\* returned Ok, the new directory contains exactly two log files, file 0 and
\* the file with the id that follows the greatest id of the original engine,
\* the active file that prepare created, which is empty.
C10_FileZeroAndActive ==
    (cpc = "Ok" /\ ~cw) =>
        /\ ExistingFiles(disk, data_dir) = {0, current_file(pre.snapshot) + 1}
        /\ disk[data_dir][current_file(pre.snapshot) + 1] = <<>>
        /\ files = <<0, current_file(pre.snapshot) + 1>>

\* a compaction without concurrent writes has returned Ok from an engine
\* that held a live and a deleted key in several files
C10_Witness ==
    /\ cpc = "Ok" /\ ~cw
    /\ Len(pre.snapshot) >= 2
    /\ pre.live # {}
    /\ \E k \in KEYS : lastWrite[k] = <<"del">>
    /\ ExistingFiles(disk, data_dir) = {0, current_file(pre.snapshot) + 1}

\* C13 (rollover file ids): without compaction, the log files of the
\* directory have the contiguous ascending ids 0, 1, ..., the file set holds
\* them in that order (each rollover added the id that follows the greatest
\* one), and the one active file is the file with the greatest id.
C13_RolloverIds ==
    /\ \A i \in 1..Len(files) : files[i] = i - 1
    /\ ExistingFiles(disk, data_dir) = 0..(Len(files) - 1)
    /\ \A f \in ExistingFiles(disk, data_dir) : f <= current_file(files)

\* two rollovers have happened
C13_Witness ==
    /\ Len(files) >= 3
    /\ current_file(files) = 2
    /\ disk[data_dir][0] # <<>> /\ disk[data_dir][1] # <<>>

\* C18 (index entries resolve to their file): in every reachable state the
\* file set resolves the file_id of every non-tombstone index entry to the
\* log file that has that id.
C18_EntriesResolve ==
    \A k \in LiveKeys(mem_index) :
       get_file(files, mem_index[k].file_id) = <<"Ok", mem_index[k].file_id>>

\* the index that the recovery scan builds when it takes the files of the
\* directory in ascending id order
OldestFirst(r) == r[2].mem_index

\* C19 (recovery scans oldest-first): whatever order the directory
\* enumeration yields the files in, an open of the directory builds the
\* index that the scan in ascending file-id order builds.
C19_OldestFirst ==
    [][Reopen =>
         mem_index' = OldestFirst(from_disk(disk, data_dir,
                                  SortedIds(ExistingFiles(disk, data_dir))))]_vars

\* C20 (tracked size): after every operation the tracked current_file_size
\* is the byte length of the active file.
C20_TrackedSize ==
    current_file_size = Len(disk[data_dir][current_file(files)])

\* C11 (at most one compaction in flight): while one compact_to call is
\* between the start of its prepare phase and the end of its finish phase,
\* no second call on the shared engine is in its prepare, build or finish
\* phase.
C11_OneCompaction == ~(InFlight /\ InFlight2)

\* the key was written after the prepare: its record is in a file younger
\* than the files of the snapshot
WrittenSincePrepare(k) ==
    /\ k \in DOMAIN mem_index
    /\ mem_index[k].file_id > current_file(pre.snapshot)

\* C17 (lock held only during prepare and finish): throughout the build
\* phase the lock is free, a put or delete issued then runs to completion
\* before finish starts, and a get during build returns the pre-compaction
\* data for the keys not written since the prepare and the last write for
\* the keys written since (the keys whose last write is a put of the empty
\* value left aside).
C17_LockFreeDuringBuild ==
    InFlight =>
        /\ ~LockHeld
        /\ (nwrites < MaxWrites /\ current_file(files) < MaxFileId)
              => ENABLED Delete /\ ENABLED Put
        /\ \A k \in KEYS :
              IF WrittenSincePrepare(k)
              THEN lastWrite[k] # <<"put", <<>>>> => get(k) = Expected(k)
              ELSE get(k) = pre.get[k]

\* C12: a put (plain, NX or XX) or a delete that returns an error from the
\* disk append path leaves the index as it was: the same entries, the same
\* size(), and the same result of get for every key.
C12_FailedWriteKeepsIndex ==
    [][nfailed' # nfailed =>
         /\ mem_index' = mem_index
         /\ size' = size
         /\ \A k \in KEYS : get(k)' = get(k)]_vars

\* a failed write has left part of a record behind a live key
C12_Witness ==
    /\ nfailed = 1
    /\ LiveKeys(mem_index) # {}
    /\ Len(disk[data_dir][current_file(files)]) > current_file_size


\* C14: when the value bytes of a value record in a log file, live or
\* superseded, no longer match the checksum stored in the record, the next
\* open of the directory fails with the corrupted-data error.
C14_CrcDetectsCorruption ==
    [][(opened = "flipped" /\ opened' # opened) => opened' = "CorruptedData"]_vars

\* an open has failed on a directory of several files with a damaged value
C14_Witness ==
    /\ opened = "CorruptedData"
    /\ Len(files) >= 2
    /\ \E f \in ExistingFiles(disk, data_dir) :
          populate_mem_index(disk[data_dir][f], f, 0, EmptyIndex)[1] = "CorruptedData"


\* the complete records of the files ids of the directory dir, file by file
RECURSIVE complete_records(_, _, _)
complete_records(dsk, dir, ids) ==
    IF ids = <<>> THEN <<>>
    ELSE SelectSeq(records(dsk[dir][Head(ids)], 0), LAMBDA e : e.key \in KEYS)
           \o complete_records(dsk, dir, Tail(ids))

\* what the last complete record of key k in the directory holds, the files
\* taken oldest first
LastComplete(dsk, dir, k) ==
    LET recs == SelectSeq(complete_records(dsk, dir,
                                           SortedIds(ExistingFiles(dsk, dir))),
                          LAMBDA e : e.key = k)
    IN IF recs = <<>> THEN None ELSE recs[Len(recs)].value

\* C15: when the active file was truncated inside its last record and the
\* directory is opened again, the open fails with an error, or it succeeds
\* and get returns for every key the value of the key's last complete
\* record; it never returns a torn or truncated value.
C15_TornWriteSafe ==
    [][(opened = "torn" /\ opened' # opened) =>
         \/ opened' \in {"IoError", "CorruptedData"}
         \/ /\ opened' = "Ok"
            /\ \A k \in KEYS : get(k)' = LastComplete(disk', data_dir', k)]_vars

\* an open has run on a directory of several files whose active file ends
\* inside a record, the key complete and the value missing
C15_Witness ==
    /\ opened \in {"Ok", "IoError", "CorruptedData"}
    /\ Len(files) >= 2
    /\ Len(disk[data_dir][current_file(files)]) = 21
    /\ populate_mem_index(disk[data_dir][current_file(files)],
                          current_file(files), 0, EmptyIndex)[1] # "Ok"


\* C16: a read that hits the end of the file in the middle of a record fails
\* with the corrupted-data error, and makes the scan and the open fail: the
\* open of a directory whose active file ends inside a record returns the
\* corrupted-data error.
C16_ShortReadIsCorruption ==
    [][(opened = "torn" /\ opened' # opened) => opened' = "CorruptedData"]_vars


\* the byte length of the active file
ActiveLen == Len(disk[data_dir][current_file(files)])

\* C21: without I/O failure, after every completed put or delete the active
\* file is at most MAX_FILE_SIZE bytes long; an append that brings the active
\* file strictly above MAX_FILE_SIZE makes the file of the next id exist and
\* be the active one when the call returns, and an append that leaves the
\* file at MAX_FILE_SIZE or below rolls nothing over.
C21_NoRolloverMissed ==
    [][nwrites' # nwrites =>
         /\ ActiveLen' <= MAX_FILE_SIZE
         /\ IF Len(disk'[data_dir][current_file(files)]) > MAX_FILE_SIZE
            THEN /\ files' = Append(files, current_file(files) + 1)
                 /\ disk'[data_dir][current_file(files')] # NoFile
            ELSE files' = files]_vars

\* a record has filled the active file up to MAX_FILE_SIZE exactly after an
\* earlier rollover, and the file is still the active one
C21_Witness ==
    /\ Len(files) >= 2
    /\ ActiveLen = MAX_FILE_SIZE
    /\ current_file_size > MAX_FILE_SIZE


\* the records a put or a delete may append
Entries ==
    {new_entry(k, v) : k \in KEYS, v \in VALUES} \cup {new_tombstone(k) : k \in KEYS}

\* C22: every successful put or delete appends exactly one complete record
\* of 20 + key_size + value_size bytes at the end of the active file, which
\* is the file of the highest id, a delete of an absent key included; no
\* byte written before changes, and every other file is byte-identical
\* before and after (the next file, created empty by a rollover, apart).
C22_AppendOnly ==
    [][nwrites' # nwrites =>
         /\ \A f \in ExistingFiles(disk, data_dir) : f <= current_file(files)
         /\ \E e \in Entries :
               /\ Len(serialize(e)) = 20 + key_byte_size(e) + value_byte_size(e)
               /\ disk'[data_dir][current_file(files)]
                     = disk[data_dir][current_file(files)] \o serialize(e)
         /\ \A d \in Dirs, f \in FileIds :
               (d # data_dir \/ f # current_file(files)) =>
                  \/ disk'[d][f] = disk[d][f]
                  \/ /\ d = data_dir /\ f = current_file(files) + 1
                     /\ disk[d][f] = NoFile /\ disk'[d][f] = <<>>]_vars

\* a delete of a key that was never written has appended a tombstone behind
\* an earlier record
C22_Witness ==
    /\ lastWrite[<<1>>] = <<"del">>
    /\ lastWrite[<<2>>] = <<"put", <<5>>>>
    /\ nwrites = 2
    /\ disk[data_dir][0] = serialize(new_entry(<<2>>, <<5>>)) \o serialize(new_tombstone(<<1>>))


\* a put NX of a key with a non-tombstone index entry, which put_nx answers
\* with KeyExists, or a put XX of a key with no entry or a tombstone entry,
\* which put_xx answers with KeyNotFound
RejectedPut ==
    \E k \in KEYS, v \in VALUES :
       \/ k \in LiveKeys(mem_index) /\ put_nx(k, v)
       \/ k \notin LiveKeys(mem_index) /\ put_xx(k, v)

\* C23: a put NX that fails with KeyExists and a put XX that fails with
\* KeyNotFound append no byte to any file and leave the index, size(), the
\* file set and the tracked file size as they were.
C23_RejectedPutFrame ==
    [][RejectedPut =>
         /\ disk' = disk
         /\ mem_index' = mem_index
         /\ size' = size
         /\ files' = files /\ data_dir' = data_dir
         /\ current_file_size' = current_file_size]_vars

\* a state in which both rejections apply, after rollovers and a finished
\* compaction: key <<1>> is live, key <<2>> has a tombstone entry
C23_Witness ==
    /\ cpc = "idle"
    /\ data_dir # 1
    /\ nwrites = MaxWrites
    /\ <<1>> \in LiveKeys(mem_index)
    /\ <<2>> \in DOMAIN mem_index /\ is_tombstone(mem_index[<<2>>])
    /\ \E v \in VALUES : ENABLED put_nx(<<1>>, v) /\ ENABLED put_xx(<<2>>, v)


\* the file ids of a snapshot, a vector of paths
SnapshotIds(paths) == {paths[i][2] : i \in 1..Len(paths)}

\* C24: the snapshot that prepare returns is exactly the set of the files of
\* the data directory whose ids are below the active file that prepare has
\* just created; from prepare to finish no snapshot file changes, and every
\* record appended goes to a file whose id is greater than every snapshot
\* file id.
C24_SnapshotPrefix ==
    [][/\ (cpc # "prepared" /\ cpc' = "prepared") =>
            /\ \A i \in 1..Len(immutable_files') :
                  immutable_files'[i][1] = data_dir'
            /\ SnapshotIds(immutable_files')
                  = {f \in ExistingFiles(disk', data_dir') : f < current_file(files')}
       /\ InFlight =>
            \A i \in 1..Len(immutable_files) :
               disk'[immutable_files[i][1]][immutable_files[i][2]]
                  = disk[immutable_files[i][1]][immutable_files[i][2]]
       /\ (InFlight /\ nwrites' # nwrites) =>
            /\ disk'[data_dir][current_file(files)]
                  # disk[data_dir][current_file(files)]
            /\ \A f \in SnapshotIds(immutable_files) : f < current_file(files)]_vars

\* a compaction over a snapshot of two files is in flight, and writes since
\* the prepare have rolled the active file over
C24_Witness ==
    /\ InFlight
    /\ cw
    /\ Len(immutable_files) >= 2
    /\ current_file(files) > current_file(pre.snapshot) + 1
    /\ disk[data_dir][current_file(pre.snapshot) + 1] # <<>>


\* the records of key k in the files ids of directory dir, oldest first
RecordsOf(dsk, dir, ids, k) ==
    SelectSeq(complete_records(dsk, dir, ids), LAMBDA e : e.key = k)

LastIsTombstone(recs) == recs # <<>> /\ recs[Len(recs)].value = None

HasValue(recs) == \E i \in 1..Len(recs) : recs[i].value # None

\* the files of the vector that are not in the snapshot, oldest first
PostSnapshot(flist, paths) == SelectSeq(flist, LAMBDA f : f \notin SnapshotIds(paths))

\* C25: for a key with a value record in the snapshot, when the finish
\* returns: if the key's tombstone lies in the snapshot too (and nothing was
\* written for the key since), file 0 of the new directory holds no record
\* of the key; if the tombstone was appended after the prepare, the file
\* that holds it is copied to the new directory as it is; in both cases
\* get(k) is absent on the engine after the finish.
C25_TombstoneBoundary ==
    [][(cpc = "built" /\ cpc' = "Ok") =>
         \A k \in KEYS :
            LET snap == RecordsOf(disk, data_dir, path_ids(immutable_files), k)
                post == RecordsOf(disk, data_dir,
                                  PostSnapshot(files, immutable_files), k)
            IN /\ (HasValue(snap) /\ LastIsTombstone(snap) /\ post = <<>>) =>
                     /\ RecordsOf(disk', new_dir, <<0>>, k) = <<>>
                     /\ get(k)' = None
               /\ (HasValue(snap) /\ ~LastIsTombstone(snap) /\ LastIsTombstone(post)) =>
                     /\ \E f \in FileIds \ SnapshotIds(immutable_files) :
                           /\ LastIsTombstone(RecordsOf(disk, data_dir, <<f>>, k))
                           /\ disk'[new_dir][f] = disk[data_dir][f]
                     /\ get(k)' = None]_vars


\* bytes is what old was, or old with bytes appended to it
Extends(old, bytes) ==
    /\ bytes # NoFile
    /\ Len(bytes) >= Len(old)
    /\ SubSeq(bytes, 1, Len(old)) = old

\* what the three phases of compact_to_new_dir do to the source directory:
\* the prepare only creates the one new empty active file, the build and the
\* finish change nothing there, and after the finish has returned Ok the
\* data directory of the engine is new_dir, another directory
CompactionKeepsSource ==
    /\ (cpc # "prepared" /\ cpc' = "prepared") =>
         /\ new_dir' # data_dir
         /\ \A f \in ExistingFiles(disk, data_dir) :
               disk'[data_dir][f] = disk[data_dir][f]
         /\ ExistingFiles(disk', data_dir) \ ExistingFiles(disk, data_dir)
               = {current_file(files')}
         /\ disk'[data_dir][current_file(files')] = <<>>
         /\ data_dir' = data_dir
    /\ (cpc = "prepared" /\ cpc' # "prepared") =>
         disk'[data_dir] = disk[data_dir] /\ data_dir' = data_dir
    /\ (cpc = "built" /\ cpc' # "built") =>
         /\ disk'[data_dir] = disk[data_dir]
         /\ cpc' = "Ok" => data_dir' = new_dir /\ new_dir # data_dir

\* C26 as stated: compact_to_new_dir to a directory other than the data
\* directory never deletes, truncates or rewrites a file that the source
\* directory held before the call; the only changes there from the prepare
\* to the finish are the creation of the one new empty active file by the
\* prepare and appends to that file; after the finish has returned Ok the
\* data directory of the engine is new_dir.
C26_OnlyPrepareFile ==
    [][/\ CompactionKeepsSource
       /\ InFlight =>
            \A f \in FileIds :
               IF f = current_file(pre.snapshot) + 1
               THEN Extends(disk[data_dir][f], disk'[data_dir][f])
               ELSE disk'[data_dir][f] = disk[data_dir][f]]_vars

\* C26, amended: as above, but the writes made from the prepare to the
\* finish may roll the active file over, so that the changes in the source
\* directory are the creation of the new empty active file by the prepare,
\* the creation of further empty files by rollovers, and appends to these
\* files; no file that the directory held before the call changes.
C26_SourceIntact ==
    [][/\ CompactionKeepsSource
       /\ InFlight =>
            \A f \in FileIds :
               IF f > current_file(pre.snapshot)
               THEN IF disk[data_dir][f] = NoFile
                    THEN disk'[data_dir][f] \in {NoFile, <<>>}
                    ELSE Extends(disk[data_dir][f], disk'[data_dir][f])
               ELSE disk'[data_dir][f] = disk[data_dir][f]]_vars

\* a compaction has returned Ok with writes made during its build that
\* rolled the active file over, and the source directory still holds its
\* files: the snapshot file, the file of the prepare and the file of the
\* rollover
C26_Witness ==
    /\ cpc = "Ok"
    /\ cw
    /\ data_dir = 2
    /\ disk[1][0] \notin {NoFile, <<>>}
    /\ disk[1][1] \notin {NoFile, <<>>}
    /\ disk[1][2] # NoFile
    /\ disk[2][1] = disk[1][1]


\* compact_to_new_dir has just returned an error
Failed == cpc \in {"IoError", "CorruptedData"}

\* C27: when the build phase or the finish phase of compact_to_new_dir
\* returns an error, the index, the file set and the data directory of the
\* engine are the ones it had before, so that get(k) and size() are
\* unchanged; the lock is released, and a later put or delete still appends
\* to the active file of the old directory.
C27_FailedCompaction ==
    /\ [][(InFlight /\ Failed') =>
            /\ mem_index' = mem_index
            /\ files' = files
            /\ data_dir' = data_dir
            /\ size' = size
            /\ \A k \in KEYS : get(k)' = get(k)]_vars
    /\ [](Failed =>
            /\ ~LockHeld
            /\ (nwrites < MaxWrites /\ current_file(files) < MaxFileId)
                  => ENABLED Put /\ ENABLED Delete)
    /\ [][(Failed /\ nwrites' # nwrites) =>
            /\ data_dir' = data_dir
            /\ disk'[data_dir][current_file(files)]
                  # disk[data_dir][current_file(files)]
            /\ Extends(disk[data_dir][current_file(files)],
                       disk'[data_dir][current_file(files)])]_vars

\* the finish phase has failed after it copied the active file, which ends
\* inside a record, to the new directory, and the engine still serves a key
\* from the old directory
C27_Witness ==
    /\ Failed
    /\ data_dir = 1
    /\ size >= 1
    /\ \E f \in FileIds \ {0} :
          /\ disk[2][f] # NoFile
          /\ disk[2][f] = disk[1][f]
          /\ populate_mem_index(disk[2][f], f, 0, EmptyIndex)[1] # "Ok"
    /\ \E k \in KEYS : Present(get(k))


\* C28: after a put or a delete has returned an error, a later successful
\* reopen of the directory observes the same get(k) as the engine that was
\* kept in memory, for the key of the failed call as for every key: the
\* failed call has left nothing on disk that a recovery scan takes up.
C28_FailedWriteNotDurable ==
    [][(nfailed > 0 /\ Reopen) => \A k \in KEYS : get(k)' = get(k)]_vars


\* the non-tombstone entries of an index
LiveIndex(m) == [k \in LiveKeys(m) |-> m[k]]

\* the record that ends with the value at location e of key k starts 20 +
\* key_size bytes before the value, in the file e names
LocatesRecord(k, e) ==
    /\ e.file_id \in ExistingFiles(disk, data_dir)
    /\ e.value_offset >= 20 + Len(k)
    /\ deserialize(disk[data_dir][e.file_id], e.value_offset - 20 - Len(k))[1] = "Ok"
    /\ deserialize(disk[data_dir][e.file_id], e.value_offset - 20 - Len(k))[2].key = k

\* r, the result of a recovery scan, is Ok and holds exactly the
\* non-tombstone entries of the live index
RecoveryAgrees(r) == r[1] = "Ok" /\ r[2].mem_index = LiveIndex(mem_index)

\* C29: after any sequence of successful puts of non-empty values and
\* deletes, rollovers included, the index that a recovery scan of the directory builds holds
\* exactly the non-tombstone entries of the live index: the same keys, with
\* the same file_id, value_offset and value_size, the value_offset being the
\* start of the record plus 20 plus the key size.
C29_RecoveryAgrees ==
    /\ \A k \in LiveKeys(mem_index) : LocatesRecord(k, mem_index[k])
    /\ \A order \in Orders(ExistingFiles(disk, data_dir)) :
          RecoveryAgrees(from_disk(disk, data_dir, order))


\* recs is a sequence of value records in strictly ascending bytewise key
\* order
AscendingValueRecords(recs) ==
    /\ \A i \in 1..Len(recs) : recs[i].value # None /\ recs[i].key \in KEYS
    /\ \A i, j \in 1..Len(recs) : i < j => key_less(recs[i].key, recs[j].key)

\* the keys that the scan of the snapshot leaves in the index of the build
SnapshotKeys(r) == IF r[1] = "Ok" THEN DOMAIN r[2].mem_index ELSE {}

\* C30: when the build phase has completed, file 0 of the new directory
\* holds one value record for each key of the snapshot's index and nothing
\* else, in ascending bytewise key order, whatever the order in which the
\* keys were written; the build being a function of the snapshot files, two
\* builds over the same files give the same bytes.
C30_DeterministicLayout ==
    cpc = "built" =>
      /\ AscendingValueRecords(records(disk[new_dir][0], 0))
      /\ {records(disk[new_dir][0], 0)[i].key :
             i \in 1..Len(records(disk[new_dir][0], 0))}
            = SnapshotKeys(immutable_initialization(disk, immutable_files))
      /\ disk[new_dir][0] = start_compaction(
                               [disk EXCEPT ![new_dir][0] = NoFile],
                               immutable_files, new_dir).bytes

\* a build has completed over a snapshot in which key <<2>> was written
\* before key <<1>>, and file 0 holds the record of <<1>> first
C30_Witness ==
    /\ cpc = "built"
    /\ Len(records(disk[new_dir][0], 0)) = 2
    /\ records(disk[new_dir][0], 0)[1].key = <<1>>
    /\ records(disk[data_dir][0], 0)[1].key = <<2>>
    /\ records(disk[data_dir][0], 0)[2].key = <<1>>

\* what a read-only call leaves alone: the files of every directory, the
\* file set, the tracked size and the index
ReadFrame == UNCHANGED <<disk, data_dir, files, current_file_size, mem_index>>

\* C31 (read-only calls): get and size modify neither the index nor the file
\* set nor any file; when the positioned read inside get fails with an I/O
\* error, get returns absent and the index entry of the key is kept, so that
\* every later get and size answers as it would have without the failure.
C31_ReadOnly ==
    /\ [][(Get \/ Size) => ReadFrame]_vars
    /\ [][\A k \in KEYS : GetCall(k, "IoError") =>
             /\ lastRead'[4] = None
             /\ k \in DOMAIN mem_index'
             /\ mem_index'[k] = mem_index[k]
             /\ \A j \in KEYS : get(j)' = get(j)
             /\ size' = size]_vars

\* a get whose read failed has just returned absent for a key that the engine
\* still serves, in an engine that has rolled over
C31_Witness ==
    \E k \in KEYS :
       /\ lastRead = <<"get", k, "IoError", None>>
       /\ k \in LiveKeys(mem_index)
       /\ get(k) \notin {None, Panic}
       /\ Len(files) > 1

\* the bytes of the records recs written one after the other
RECURSIVE serialize_all(_)
serialize_all(recs) ==
    IF recs = <<>> THEN <<>>
    ELSE serialize(Head(recs)) \o serialize_all(Tail(recs))

\* the scan stands at cursor in front of the bytes of record e, takes one
\* turn, and has then moved the cursor by 20 + key_size + value_size and
\* applied e at its place: a tombstone removes the key, a value record
\* inserts the location of its value
TurnApplies(e) ==
    /\ CanRead(disk[data_dir][ScannedFile], scan.cursor, Len(serialize(e)))
    /\ ReadAt(disk[data_dir][ScannedFile], scan.cursor, Len(serialize(e)))
          = serialize(e)
    /\ scan'.cursor = scan.cursor + 20 + Len(e.key) + value_byte_size(e)
    /\ serialize_all(scan'.applied) = serialize_all(scan.applied) \o serialize(e)
    /\ Len(scan'.applied) = Len(scan.applied) + 1
    /\ scan'.mem_index =
          IF value_byte_size(e) = 0
          THEN [k \in (DOMAIN scan.mem_index) \ {e.key} |-> scan.mem_index[k]]
          ELSE [k \in (DOMAIN scan.mem_index) \cup {e.key} |->
                  IF k = e.key
                  THEN [file_id |-> ScannedFile,
                        value_offset |-> scan.cursor + 20 + Len(e.key),
                        value_size |-> value_byte_size(e)]
                  ELSE scan.mem_index[k]]

\* C32 (the recovery scan terminates): over a file made only of complete
\* valid records, every turn of the scan loop advances the cursor by exactly
\* 20 + key_size + value_size of the record it read and applies that record
\* (a tombstone removes the key from the index, a value record inserts it);
\* when the loop breaks the cursor equals the file length and the records
\* applied are the records of the file, each once, in write order; the scan
\* of the last file leaves the engine with the index the turns built, which
\* is the index of from_disk; and every scan that was started ends.
C32_ScanTerminates ==
    /\ [][ScanTurn => \E e \in Entries : TurnApplies(e)]_vars
    /\ [][ScanBreak =>
             /\ scan.cursor = Len(disk[data_dir][ScannedFile])
             /\ serialize_all(scan.applied) = disk[data_dir][ScannedFile]]_vars
    /\ [][(ScanBreak /\ scan.idx = Len(scan.order)) =>
             /\ opened' = "Ok"
             /\ mem_index' = scan.mem_index
             /\ <<"Ok", [disk |-> disk', files |-> files',
                         current_file_size |-> current_file_size',
                         mem_index |-> mem_index']>>
                   = from_disk(disk, data_dir, scan.order)]_vars
    /\ (scan.pos = "loop") ~> (scan.pos = "idle" /\ opened = "Ok")

\* the scan of the second file of a directory stands at the end of the
\* file, which holds a value record of key <<1>> and a tombstone of it, both
\* applied: the index holds the key of the first file only
C32_Witness ==
    /\ scan.pos = "loop"
    /\ scan.idx = 2
    /\ scan.cursor = scan.file_size
    /\ scan.cursor = 43
    /\ Len(scan.applied) = 2
    /\ scan.applied[1].key = <<1>> /\ scan.applied[1].value # None
    /\ scan.applied[2].key = <<1>> /\ scan.applied[2].value = None
    /\ DOMAIN scan.mem_index = {<<2>>}

====
